---- MODULE Spec2Model ----
(***************************************************************************)
(* Model of TransitionSystem.__init__ (src/TransitionSystem.py): the       *)
(* breadth-first construction of the car/road transition system, together  *)
(* with the predicates crashed, speeding, inGoalStates and getAdjLanes.    *)
(*                                                                         *)
(* Node objects live in the arena `heap` (index = order of creation); the  *)
(* Python list Nodes, the deque nodeQueue and every adjList hold indices   *)
(* into it.  One step of the model is one iteration of the `while True`    *)
(* loop head (popleft) or one iteration of the inner `for vel` loop.       *)
(***************************************************************************)
EXTENDS Integers, Sequences, FiniteSets, TLC

VARIABLES
    initCarX, initCarY, initCarT, initCarVel,   \* constructor arguments
    maxTime, allLanes, allVelocities, allowedLaneVels, goalStates, POS,
    heap,           \* every Node object that was kept, in creation order
    Nodes,          \* the Python list Nodes (indices into heap)
    nodeQueue,      \* the deque nodeQueue (indices into heap)
    currNode,       \* index of the node popped last (0 before the first pop)
    allowedLanes,   \* tuple returned by getAdjLanes for currNode
    laneIdx, velIdx,\* positions of the two for loops
    DFA,            \* self.DFA, NoDFA until it is assigned
    pc,             \* "pop" | "expand" | "done" | "raised"; "call" |
                    \* "returned" for a direct call of crashed
    exc,            \* name of the exception that ended the constructor
    call,           \* arguments of a direct call of crashed (NoCall if none)
    ret,            \* what that call returned (read when pc = "returned")
    pruned,         \* history: <<parent, lane, vel>> of every dropped candidate
    queried,        \* history: <<parent, lane, vel, x, y, t>> of every POS[x, y, t]
                    \* read for the candidate (lane, vel) of parent
    run,            \* 1 for the first construction, 2 for a repeated one
    first           \* what the first construction left behind (NoRun before)

config == <<initCarX, initCarY, initCarT, initCarVel, maxTime, allLanes,
            allVelocities, allowedLaneVels, goalStates, POS>>
vars == <<config, heap, Nodes, nodeQueue, currNode, allowedLanes,
          laneIdx, velIdx, DFA, pc, exc, call, ret, pruned, queried, run, first>>

----------------------------------------------------------------------------
(* Bounds of the explored inputs *)

MaxHorizon == 2      \* maxTime ranges over 0..MaxHorizon
MaxOccupied == 1     \* at most this many occupied cells in POS
DeepHorizon == 3     \* maxTime of the one deep two-lane build

LaneSets == {{}, {0}, {0, 1}, {0, 1, 2}, {0, 2}}
VelocityLists == {<< >>, <<2>>, <<1, 2>>, <<2, 1>>, <<-1>>}
LegalSets == {{1}, {2}, {1, 2}}
GoalLists == {<< >>, << <<1, 1>> >>, << <<0, 2>>, <<1, 0>> >>}
InitTimes == {1}
InitVels == {1}
InitYs == {0}
GridLanes == {0, 1, 2}
GridYs == {0, 1}
GridTs == 0..(MaxHorizon - 1)
Cells == GridLanes \X GridYs \X GridTs

MaxCrashVel == 3     \* direct calls of crashed use prevVel in 0..MaxCrashVel
CrashLanes == {0, 1}
CrashMinSpeeds == {1, 3}
CrashCells == CrashLanes \X (0..MaxCrashVel) \X {0, 1}

----------------------------------------------------------------------------
(* Python built-ins *)

SetMax(S) == CHOOSE x \in S : \A y \in S : y <= x
SetMin(S) == CHOOSE x \in S : \A y \in S : x <= y

NoDFA == [nodes |-> << >>, startNode |-> 0]
NoRun == [heap |-> << >>, Nodes |-> << >>, nodeQueue |-> << >>,
          DFA |-> NoDFA, pc |-> "none", exc |-> "none", pruned |-> {}]
NoCall == [prevLane |-> 0, prevVel |-> 0, carX |-> 0, carY |-> 0, carT |-> 0,
           minSpeedInPrevLane |-> 0, minSpeedInCarXLane |-> 0]

----------------------------------------------------------------------------
(* getAdjLanes, lines 239-249 *)

getAdjLanes(currLane, lanes) ==
    IF currLane = SetMax(lanes) THEN <<currLane - 1, currLane>>
    ELSE IF currLane = SetMin(lanes) THEN <<currLane, currLane + 1>>
    ELSE <<currLane - 1, currLane, currLane + 1>>

(* POS[x, y, t] read as 0/1, lines 216 and 221 *)
POSAt(x, y, t) == IF <<x, y, t>> \in POS THEN 1 ELSE 0

(* variant of SumLane: the loop also reads the cell at offset dist *)
RECURSIVE SumLaneClosed(_, _, _, _)
SumLaneClosed(x, y, t, dist) ==
    IF dist < 0 THEN 0
    ELSE SumLaneClosed(x, y, t, dist - 1) + POSAt(x, y + dist, t)

(* one `for ii in range(0, dist)` accumulation, lines 214-216 / 219-221 *)
RECURSIVE SumLane(_, _, _, _)
SumLane(x, y, t, dist) ==
    IF dist <= 0 THEN 0
    ELSE SumLane(x, y, t, dist - 1) + POSAt(x, y + (dist - 1), t)

(* variant of LaneReads: the cell at offset dist is read as well *)
LaneReadsClosed(x, y, t, dist) == {<<x, y + ii, t>> : ii \in 0..dist}

(* the cells POS[x, y + ii, t] one `for ii in range(0, dist)` loop reads, *)
(* lines 214-216 / 219-221                                                 *)
LaneReads(x, y, t, dist) == {<<x, y + ii, t>> : ii \in 0..(dist - 1)}

(* variant of crashed: the lane being entered is not swept *)
crashedPrevLaneOnly(prevLane, prevVel, carX, carY, carT, minSpeedInPrevLane, minSpeedInCarXLane) ==
    SumLane(prevLane, carY - prevVel, carT - 1,
            prevVel - minSpeedInPrevLane) > 0

(* crashed, lines 203-228 *)
crashed(prevLane, prevVel, carX, carY, carT, minSpeedInPrevLane, minSpeedInCarXLane) ==
    LET timeStepLength == 1
        prevY == carY - prevVel * timeStepLength
        prevT == carT - timeStepLength
        sumPrevLane == SumLane(prevLane, prevY, prevT,
                               prevVel - minSpeedInPrevLane)
        sumCarXLane == SumLane(carX, prevY, prevT,
                               prevVel - minSpeedInCarXLane)
        numCollisions == sumPrevLane + sumCarXLane
    IN  numCollisions > 0

(* variant of speeding: only the lane being entered is consulted *)
speedingCarXOnly(prevLane, prevVel, carX, allowedVelsPrevLane, allowedVelsCarXLane) ==
    IF prevVel \in allowedVelsCarXLane THEN FALSE ELSE TRUE

(* speeding, lines 138-145 *)
speeding(prevLane, prevVel, carX, allowedVelsPrevLane, allowedVelsCarXLane) ==
    IF (prevVel \in allowedVelsPrevLane) /\ (prevVel \in allowedVelsCarXLane)
    THEN FALSE ELSE TRUE

(* variant of inGoalStates: a position equal to the threshold counts *)
inGoalStatesAtLeast(carX, carY, goals) ==
    IF (carX = goals[1][1]) /\ (carY >= goals[1][2]) THEN TRUE ELSE FALSE

(* inGoalStates, lines 165-172 (goalStates is non-empty when called here) *)
inGoalStates(carX, carY, goals) ==
    LET minYGoalState == goals[1][2]
        xGoalState == goals[1][1]
    IN  IF (carX = xGoalState) /\ (carY > minYGoalState) THEN TRUE ELSE FALSE

----------------------------------------------------------------------------
(* Bounded sets of occupancy tables: at most k occupied cells *)

RECURSIVE TablesUpTo(_, _)
TablesUpTo(cells, k) ==
    IF k = 0 THEN {{}}
    ELSE LET smaller == TablesUpTo(cells, k - 1)
         IN  smaller \cup {S \cup {c} : S \in smaller, c \in cells}

(* allowedLaneVels: an entry for every lane, or for every lane but the *)
(* highest                                                               *)
LegalTables(lanes) ==
    [lanes -> LegalSets]
        \cup (IF lanes = {} THEN {}
              ELSE [lanes \ {SetMax(lanes)} -> LegalSets])

----------------------------------------------------------------------------
(* The constructor, lines 35-115 *)

(* variant of newList: the list of an earlier construction is reused *)
keptList(old) == old

(* line 47: Nodes = [] *)
newList(old) == << >>

(* variant of newAdjList: the child starts from its parent's list *)
inheritedAdjList(currAdjList) == currAdjList

(* line 79: adjList=[] of a new Node *)
newAdjList(currAdjList) == << >>

(* variant of dequeAppend: the node is put at the left end *)
dequeAppendLeft(queue, node) == <<node>> \o queue

(* line 111: nodeQueue.append(nextNode) *)
dequeAppend(queue, node) == Append(queue, node)

(* NodeState(...) of lines 39-40 with the Observation of lines 42-43 *)
initNode ==
    [carX |-> initCarX, carY |-> initCarY, carT |-> 0,
     prevLane |-> initCarX, prevVel |-> initCarVel,
     atGoal |-> FALSE, crashed |-> FALSE, speeding |-> FALSE,
     adjList |-> << >>]

(* variant of nextState: the velocity is subtracted from the position *)
nextStateBackwards(currState, lane, vel) ==
    [carX |-> lane,
     carY |-> currState.carY - vel,
     carT |-> currState.carT + 1,
     prevLane |-> currState.carX,
     prevVel |-> vel]

(* variant of nextState: prevLane is taken from the lane being entered *)
nextStateOwnLane(currState, lane, vel) ==
    [carX |-> lane,
     carY |-> currState.carY + vel,
     carT |-> currState.carT + 1,
     prevLane |-> lane,
     prevVel |-> vel]

(* lines 64-75: the state of the candidate reached from currState *)
nextState(currState, lane, vel) ==
    [carX |-> lane,
     carY |-> currState.carY + vel,
     carT |-> currState.carT + 1,
     prevLane |-> currState.carX,
     prevVel |-> vel]

(* variant of BeforeHorizon: a node at the horizon is expanded too *)
UpToHorizon(carT) == carT <= maxTime

(* line 59: the test that decides between expanding and returning *)
BeforeHorizon(carT) == carT # maxTime

(* variant of adjListAppend: the new child goes to the front *)
adjListPrepend(adjList, node) == <<node>> \o adjList

(* line 110: currNode.adjList.append(nextNode) *)
adjListAppend(adjList, node) == Append(adjList, node)

(* lines 35-37: the arguments of the constructor, every combination of  *)
(* the bounded input sets up to the horizon MaxHorizon                   *)
ShallowInputs ==
    /\ allLanes \in LaneSets
    /\ initCarX \in (IF allLanes = {} THEN {0} ELSE allLanes)
    /\ initCarY \in InitYs
    /\ initCarT \in InitTimes
    /\ initCarVel \in InitVels
    /\ maxTime \in 0..MaxHorizon
    /\ allVelocities \in VelocityLists
    /\ allowedLaneVels \in LegalTables(allLanes)
    /\ goalStates \in GoalLists
    /\ POS \in TablesUpTo(Cells, MaxOccupied)

(* lines 35-37: the arguments of one deeper build on a free two-lane road *)
DeepInputs ==
    /\ allLanes = {0, 1}
    /\ initCarX = 0
    /\ initCarY \in InitYs
    /\ initCarT \in InitTimes
    /\ initCarVel \in InitVels
    /\ maxTime = DeepHorizon
    /\ allVelocities = <<1, 2>>
    /\ allowedLaneVels = [l \in {0, 1} |-> {1, 2}]
    /\ goalStates = << <<1, 1>> >>
    /\ POS = {}

(* lines 45-52: state right after the set-up, before the first popleft *)
Init ==
    /\ (ShallowInputs \/ DeepInputs)
    /\ heap = <<initNode>>
    /\ Nodes = <<1>>
    /\ nodeQueue = <<1>>
    /\ currNode = 0
    /\ allowedLanes = << >>
    /\ laneIdx = 0
    /\ velIdx = 0
    /\ DFA = NoDFA
    /\ pc = "pop"
    /\ exc = "none"
    /\ call = NoCall
    /\ ret = FALSE
    /\ pruned = {}
    /\ queried = {}
    /\ run = 1
    /\ first = NoRun

(* line 56 on an empty deque: popleft raises IndexError *)
PopEmpty ==
    /\ pc = "pop"
    /\ nodeQueue = << >>
    /\ pc' = "raised"
    /\ exc' = "IndexError"
    /\ UNCHANGED <<config, heap, Nodes, nodeQueue, currNode, allowedLanes,
                   laneIdx, velIdx, DFA, call, ret, pruned, queried, run, first>>

(* lines 56-57 with an empty allLanes: max() in getAdjLanes raises *)
PopValueError ==
    /\ pc = "pop"
    /\ nodeQueue # << >>
    /\ allLanes = {}
    /\ currNode' = Head(nodeQueue)
    /\ nodeQueue' = Tail(nodeQueue)
    /\ pc' = "raised"
    /\ exc' = "ValueError"
    /\ UNCHANGED <<config, heap, Nodes, allowedLanes, laneIdx, velIdx, DFA,
                   call, ret, pruned, queried, run, first>>

(* lines 56-61: popleft, getAdjLanes, and entry into the two for loops *)
PopExpand ==
    /\ pc = "pop"
    /\ nodeQueue # << >>
    /\ allLanes # {}
    /\ BeforeHorizon(heap[Head(nodeQueue)].carT)
    /\ currNode' = Head(nodeQueue)
    /\ nodeQueue' = Tail(nodeQueue)
    /\ allowedLanes' = getAdjLanes(heap[Head(nodeQueue)].carX, allLanes)
    /\ laneIdx' = 1
    /\ velIdx' = 1
    /\ pc' = IF allVelocities = << >> THEN "pop" ELSE "expand"
    /\ UNCHANGED <<config, heap, Nodes, DFA, exc, call, ret, pruned, queried, run, first>>

(* lines 56-59 and 113-115: popleft, then the else branch builds the DFA *)
PopAssemble ==
    /\ pc = "pop"
    /\ nodeQueue # << >>
    /\ allLanes # {}
    /\ ~BeforeHorizon(heap[Head(nodeQueue)].carT)
    /\ currNode' = Head(nodeQueue)
    /\ nodeQueue' = Tail(nodeQueue)
    /\ allowedLanes' = getAdjLanes(heap[Head(nodeQueue)].carX, allLanes)
    /\ DFA' = [nodes |-> Nodes, startNode |-> 1]
    /\ pc' = "done"
    /\ UNCHANGED <<config, heap, Nodes, laneIdx, velIdx, exc, call, ret, pruned, queried, run, first>>

(* the candidate of the current iteration of `for lane` / `for vel` *)
candidate == nextState(heap[currNode], allowedLanes[laneIdx],
                       allVelocities[velIdx])

(* variant of candidateCrashed: a speeding candidate is rejected as well *)
candidateCrashedOrSpeeding ==
    \/ crashed(candidate.prevLane, candidate.prevVel, candidate.carX,
               candidate.carY, candidate.carT,
               SetMin(allowedLaneVels[candidate.prevLane]),
               SetMin(allowedLaneVels[candidate.carX]))
    \/ speeding(candidate.prevLane, candidate.prevVel, candidate.carX,
                allowedLaneVels[candidate.prevLane],
                allowedLaneVels[candidate.carX])

(* the cells of POS that crashed reads, lines 207-221 *)
crashedReads(prevLane, prevVel, carX, carY, carT, minSpeedInPrevLane, minSpeedInCarXLane) ==
    LET timeStepLength == 1
        prevY == carY - prevVel * timeStepLength
        prevT == carT - timeStepLength
    IN  LaneReads(prevLane, prevY, prevT, prevVel - minSpeedInPrevLane)
           \cup LaneReads(carX, prevY, prevT, prevVel - minSpeedInCarXLane)

(* lines 81-90 for the current candidate: the reads of its call of crashed *)
candidateQueries ==
    {<<currNode, candidate.carX, candidate.prevVel, c[1], c[2], c[3]>> :
        c \in crashedReads(candidate.prevLane, candidate.prevVel,
                           candidate.carX, candidate.carY, candidate.carT,
                           SetMin(allowedLaneVels[candidate.prevLane]),
                           SetMin(allowedLaneVels[candidate.carX]))}

(* lines 81-90 for the current candidate *)
candidateCrashed ==
    crashed(candidate.prevLane, candidate.prevVel, candidate.carX,
            candidate.carY, candidate.carT,
            SetMin(allowedLaneVels[candidate.prevLane]),
            SetMin(allowedLaneVels[candidate.carX]))

(* lines 60-61: advance `for vel`, then `for lane`, then back to line 56 *)
LoopAdvance ==
    IF velIdx < Len(allVelocities)
    THEN /\ velIdx' = velIdx + 1
         /\ UNCHANGED <<laneIdx, pc>>
    ELSE IF laneIdx < Len(allowedLanes)
    THEN /\ velIdx' = 1
         /\ laneIdx' = laneIdx + 1
         /\ UNCHANGED pc
    ELSE /\ pc' = "pop"
         /\ UNCHANGED <<laneIdx, velIdx>>

(* lines 81-82: allowedLaneVels has no entry for one of the two lanes *)
CandidateKeyError ==
    /\ pc = "expand"
    /\ ~({candidate.prevLane, candidate.carX} \subseteq DOMAIN allowedLaneVels)
    /\ pc' = "raised"
    /\ exc' = "KeyError"
    /\ UNCHANGED <<config, heap, Nodes, nodeQueue, currNode, allowedLanes,
                   laneIdx, velIdx, DFA, call, ret, pruned, queried, run, first>>

(* lines 88-91 when crashed(...) is True: nextNode is dropped *)
CandidateCrashed ==
    /\ pc = "expand"
    /\ {candidate.prevLane, candidate.carX} \subseteq DOMAIN allowedLaneVels
    /\ candidateCrashed
    /\ pruned' = pruned \cup {<<currNode, candidate.carX, candidate.prevVel>>}
    /\ queried' = queried \cup candidateQueries
    /\ LoopAdvance
    /\ UNCHANGED <<config, heap, Nodes, nodeQueue, currNode, allowedLanes,
                   DFA, exc, call, ret, run, first>>

(* lines 91-99 with an empty goalStates: goalStates[0] raises *)
CandidateGoalError ==
    /\ pc = "expand"
    /\ {candidate.prevLane, candidate.carX} \subseteq DOMAIN allowedLaneVels
    /\ ~candidateCrashed
    /\ goalStates = << >>
    /\ pc' = "raised"
    /\ exc' = "IndexError"
    /\ queried' = queried \cup candidateQueries
    /\ UNCHANGED <<config, heap, Nodes, nodeQueue, currNode, allowedLanes,
                   laneIdx, velIdx, DFA, call, ret, pruned, run, first>>

(* lines 91-111 when crashed(...) is False *)
CandidateAccepted ==
    /\ pc = "expand"
    /\ {candidate.prevLane, candidate.carX} \subseteq DOMAIN allowedLaneVels
    /\ ~candidateCrashed
    /\ goalStates # << >>
    /\ LET obs == [atGoal |-> inGoalStates(candidate.carX, candidate.carY,
                                           goalStates),
                   crashed |-> candidateCrashed,
                   speeding |-> speeding(candidate.prevLane,
                                         candidate.prevVel, candidate.carX,
                                         allowedLaneVels[candidate.prevLane],
                                         allowedLaneVels[candidate.carX])]
           nextNode == candidate @@ obs
                          @@ [adjList |-> newAdjList(heap[currNode].adjList)]
           ref == Len(heap) + 1
       IN  /\ heap' = Append([heap EXCEPT ![currNode].adjList =
                                  adjListAppend(@, ref)], nextNode)
           /\ nodeQueue' = dequeAppend(nodeQueue, ref)
    /\ queried' = queried \cup candidateQueries
    /\ LoopAdvance
    /\ UNCHANGED <<config, Nodes, currNode, allowedLanes, DFA, exc, call, ret, pruned, run, first>>

Next ==
    \/ PopEmpty
    \/ PopValueError
    \/ PopExpand
    \/ PopAssemble
    \/ CandidateKeyError
    \/ CandidateCrashed
    \/ CandidateGoalError
    \/ CandidateAccepted

Spec == Init /\ [][Next]_vars

(* the constructor is one sequential call: it keeps running until it        *)
(* returns or raises                                                        *)
FairSpec == Spec /\ WF_vars(Next)

----------------------------------------------------------------------------
(* The constructor called a second time with the same arguments *)

(* what a finished construction leaves behind *)
Outcome ==
    [heap |-> heap, Nodes |-> Nodes, nodeQueue |-> nodeQueue, DFA |-> DFA,
     pc |-> pc, exc |-> exc, pruned |-> pruned]

(* lines 35-52 run again once the first call has returned or raised *)
Restart ==
    /\ run = 1
    /\ pc \in {"done", "raised"}
    /\ first' = Outcome
    /\ run' = 2
    /\ heap' = <<initNode>>
    /\ Nodes' = Append(newList(Nodes), 1)
    /\ nodeQueue' = <<1>>
    /\ currNode' = 0
    /\ allowedLanes' = << >>
    /\ laneIdx' = 0
    /\ velIdx' = 0
    /\ DFA' = NoDFA
    /\ pc' = "pop"
    /\ exc' = "none"
    /\ pruned' = {}
    /\ queried' = {}
    /\ UNCHANGED <<config, call, ret>>

TwiceNext ==
    \/ Next
    \/ Restart

TwiceSpec == Init /\ [][TwiceNext]_vars

----------------------------------------------------------------------------
(* crashed called directly, lines 203-228, on arguments of its own *)

CrashInit ==
    /\ POS \in TablesUpTo(CrashCells, MaxOccupied + 1)
    /\ call \in {[prevLane |-> pl, prevVel |-> v, carX |-> x, carY |-> v,
                  carT |-> 1, minSpeedInPrevLane |-> mp,
                  minSpeedInCarXLane |-> mx] :
                     pl \in CrashLanes, v \in 0..MaxCrashVel, x \in CrashLanes,
                     mp \in CrashMinSpeeds, mx \in CrashMinSpeeds}
    /\ ret = FALSE
    /\ initCarX = 0 /\ initCarY = 0 /\ initCarT = 0 /\ initCarVel = 0
    /\ maxTime = 0
    /\ allLanes = CrashLanes
    /\ allVelocities = << >>
    /\ allowedLaneVels = [l \in CrashLanes |-> CrashMinSpeeds]
    /\ goalStates = << >>
    /\ heap = << >> /\ Nodes = << >> /\ nodeQueue = << >>
    /\ currNode = 0 /\ allowedLanes = << >> /\ laneIdx = 0 /\ velIdx = 0
    /\ DFA = NoDFA /\ pc = "call" /\ exc = "none"
    /\ pruned = {} /\ queried = {} /\ run = 1 /\ first = NoRun

CallCrashed ==
    /\ pc = "call"
    /\ ret' = crashed(call.prevLane, call.prevVel, call.carX, call.carY,
                      call.carT, call.minSpeedInPrevLane,
                      call.minSpeedInCarXLane)
    /\ pc' = "returned"
    /\ UNCHANGED <<config, heap, Nodes, nodeQueue, currNode, allowedLanes,
                   laneIdx, velIdx, DFA, exc, call, pruned, queried, run, first>>

CrashNext == CallCrashed

CrashSpec == CrashInit /\ [][CrashNext]_vars

----------------------------------------------------------------------------
(* Vocabulary of the properties *)

Range(seq) == {seq[i] : i \in 1..Len(seq)}
NodeIds == 1..Len(heap)

(* a node whose two for loops ran to completion *)
Expanded(n) ==
    /\ n \notin Range(nodeQueue)
    /\ heap[n].carT < maxTime
    /\ ~(pc \in {"expand", "raised"} /\ currNode = n)

(* the Crash Test as the design states it: some swept cell is occupied *)
SweepOccupied(lane, priorPosition, priorTime, sweep) ==
    \E i \in 0..(sweep - 1) : <<lane, priorPosition + i, priorTime>> \in POS

CrashTest(arrivalLane, arrivalVelocity, candidateLane, candidatePosition, candidateTime, minLegalSpeedArrivalLane, minLegalSpeedCandidateLane) ==
    LET priorPosition == candidatePosition - arrivalVelocity
        priorTime == candidateTime - 1
    IN  \/ SweepOccupied(arrivalLane, priorPosition, priorTime,
                         arrivalVelocity - minLegalSpeedArrivalLane)
        \/ SweepOccupied(candidateLane, priorPosition, priorTime,
                         arrivalVelocity - minLegalSpeedCandidateLane)

MinLegalSpeed(lane) == SetMin(allowedLaneVels[lane])

(* the Crash Test of the transition parent state -> (lane, +vel) *)
TransitionCrashes(parent, lane, vel) ==
    CrashTest(parent.carX, vel, lane, parent.carY + vel, parent.carT + 1,
              MinLegalSpeed(parent.carX), MinLegalSpeed(lane))

(* the Crash Test of the transition that produced node k *)
NodeCrashes(k) ==
    CrashTest(heap[k].prevLane, heap[k].prevVel, heap[k].carX, heap[k].carY,
              heap[k].carT, MinLegalSpeed(heap[k].prevLane),
              MinLegalSpeed(heap[k].carX))

(* every node reachable from an adjacency list, the queue or the DFA *)
Referenced ==
    UNION {Range(heap[n].adjList) : n \in NodeIds}
        \cup Range(nodeQueue) \cup Range(DFA.nodes) \cup Range(Nodes)
        \cup (IF DFA = NoDFA THEN {} ELSE {DFA.startNode})

(* the candidates of node n in lane-then-velocity order, crashing ones left *)
(* out, from the j-th candidate on                                          *)
RECURSIVE SafeCandidatesFrom(_, _, _)
SafeCandidatesFrom(n, lanes, j) ==
    LET V == Len(allVelocities)
        lane == lanes[((j - 1) \div V) + 1]
        vel == allVelocities[((j - 1) % V) + 1]
    IN  IF V = 0 \/ j > Len(lanes) * V THEN << >>
        ELSE (IF TransitionCrashes(heap[n], lane, vel) THEN << >>
              ELSE << <<lane, heap[n].carY + vel, heap[n].carT + 1>> >>)
             \o SafeCandidatesFrom(n, lanes, j + 1)

ChildStates(n) ==
    [i \in 1..Len(heap[n].adjList) |->
        <<heap[heap[n].adjList[i]].carX, heap[heap[n].adjList[i]].carY,
          heap[heap[n].adjList[i]].carT>>]

ScenarioA ==
    /\ allLanes = {0, 1} /\ allVelocities = <<1, 2>>
    /\ allowedLaneVels = [l \in {0, 1} |-> {1, 2}]
    /\ POS = {} /\ maxTime = 1 /\ initCarX = 0 /\ initCarY = 0

ScenarioB ==
    /\ allLanes = {0, 1} /\ allVelocities = <<1, 2>>
    /\ allowedLaneVels = [l \in {0, 1} |-> IF l = 0 THEN {1} ELSE {1, 2}]
    /\ POS = {<<0, 1, 0>>} /\ maxTime = 1 /\ initCarX = 0 /\ initCarY = 0

(* a configuration in which every lane getAdjLanes can return has an entry  *)
(* in allowedLaneVels and the velocity list is not empty                    *)
RegularConfig ==
    /\ allLanes \in {{0, 1}, {0, 1, 2}}
    /\ DOMAIN allowedLaneVels = allLanes
    /\ allVelocities # << >>
    /\ goalStates # << >>

----------------------------------------------------------------------------
(* C1: no Node held by an adjacency list, the work queue, the node list or *)
(* the Automaton is crashed: its Observation.crashed is false and the      *)
(* Crash Test of the transition that produced it is false.                 *)
C1_NoCrashedNode ==
    \A k \in Referenced :
        /\ k \in NodeIds
        /\ heap[k].crashed = FALSE
        /\ (k # 1 => ~NodeCrashes(k))

(* a finished build in which some node lost a candidate to the Crash Test  *)
(* and kept another                                                        *)
C1_Witness ==
    /\ pc = "done"
    /\ \E n \in NodeIds :
          /\ Expanded(n)
          /\ heap[n].adjList # << >>
          /\ \E l \in Range(getAdjLanes(heap[n].carX, allLanes)),
                v \in Range(allVelocities) :
                 TransitionCrashes(heap[n], l, v)

(* C2: when the build has finished, the Automaton's node collection holds  *)
(* every accepted Node (the root and every candidate appended to an        *)
(* adjacency list) and its start node is the root; candidates join the     *)
(* node collection when they are accepted.                                 *)
C2_NodesHoldEveryAcceptedNode ==
    /\ NodeIds \subseteq Range(Nodes)
    /\ (pc = "done" => /\ NodeIds \subseteq Range(DFA.nodes)
                       /\ DFA.startNode = 1)

(* C3: after a node before the horizon was expanded, its adjacency list is *)
(* exactly the non-crashing candidates of adjacentLanes x allVelocities in *)
(* lane-then-velocity order; in Scenario A the root gets the 4 children    *)
(* (0,1),(0,2),(1,1),(1,2), none crashed and none speeding.                *)
C3_AdjacencyIsSafeCrossProduct ==
    /\ \A n \in NodeIds :
          Expanded(n) =>
             ChildStates(n) =
                SafeCandidatesFrom(n, getAdjLanes(heap[n].carX, allLanes), 1)
    /\ (ScenarioA /\ Expanded(1)) =>
          /\ ChildStates(1) =
                << <<0, 1, 1>>, <<0, 2, 1>>, <<1, 1, 1>>, <<1, 2, 1>> >>
          /\ \A k \in Range(heap[1].adjList) :
                ~heap[k].crashed /\ ~heap[k].speeding

C3_Witness ==
    /\ ScenarioA
    /\ pc = "done"
    /\ Len(heap[1].adjList) = 4

C5_HorizonNodesAreLeaves ==
    \A k \in NodeIds :
        /\ heap[k].carT <= maxTime
        /\ (heap[k].carT = maxTime => heap[k].adjList = << >>)

(* a horizon node was dequeued while others wait in the queue *)
C5_Witness ==
    /\ pc = "done"
    /\ maxTime = MaxHorizon
    /\ heap[currNode].carT = maxTime
    /\ nodeQueue # << >>

(* C6: in every configuration the build comes to its end: it is done.      *)
C6_BuildIsDone == RegularConfig => <>(pc = "done")

(* C7: when pruning by the Crash Test leaves the work queue empty before   *)
(* any Node reached the horizon, the build does not end in an error.       *)
C7_PruningIsNoError ==
    (/\ allVelocities # << >>
     /\ goalStates # << >>
     /\ allLanes # {}
     /\ nodeQueue = << >>
     /\ exc # "KeyError"
     /\ \A k \in NodeIds : heap[k].carT # maxTime)
        => pc # "raised"

(* C8: the Automaton is assembled only when the work queue is empty.       *)
C8_AssembledOnEmptyQueue == (DFA # NoDFA) => (nodeQueue = << >>)

(* C9: a direct call of crashed returns true iff the occupancy table is   *)
(* true at a swept cell of the arrival lane or of the candidate lane (sweep *)
(* counts arrivalVelocity - minLegalSpeed of that lane, cells               *)
(* priorPosition + i for 0 <= i < sweep, at priorTime); a lane whose sweep  *)
(* count is <= 0 contributes nothing; sweeping the same lane twice gives    *)
(* the result of sweeping it once.                                          *)
C9_CrashedIffSweptCellOccupied ==
    (pc = "returned") =>
        LET priorPosition == call.carY - call.prevVel
            priorTime == call.carT - 1
            sweepArrival == call.prevVel - call.minSpeedInPrevLane
            sweepCandidate == call.prevVel - call.minSpeedInCarXLane
            hitArrival == SweepOccupied(call.prevLane, priorPosition,
                                        priorTime, sweepArrival)
            hitCandidate == SweepOccupied(call.carX, priorPosition,
                                          priorTime, sweepCandidate)
        IN  /\ ret = CrashTest(call.prevLane, call.prevVel, call.carX,
                               call.carY, call.carT, call.minSpeedInPrevLane,
                               call.minSpeedInCarXLane)
            /\ (sweepArrival <= 0 => ret = hitCandidate)
            /\ (sweepCandidate <= 0 => ret = hitArrival)
            /\ (call.prevLane = call.carX /\ sweepArrival = sweepCandidate)
                   => ret = hitArrival

(* a crash found only in the lane being entered, beyond its first cell *)
C9_Witness ==
    /\ pc = "returned"
    /\ ret = TRUE
    /\ call.prevLane # call.carX
    /\ call.prevVel - call.minSpeedInPrevLane <= 0
    /\ <<call.carX, call.carY - call.prevVel, call.carT - 1>> \notin POS

(* C10: in Scenario B no transition out of the root with arrivalVelocity 2 *)
(* is kept (each sweeps the occupied cell (0,1,0)), while one with         *)
(* arrivalVelocity 1 is.                                                   *)
C10_ScenarioBRejectsVelocity2 ==
    (ScenarioB /\ Expanded(1)) =>
        /\ \A k \in Range(heap[1].adjList) : heap[k].prevVel # 2
        /\ \E k \in Range(heap[1].adjList) : heap[k].prevVel = 1

(* C11: for a non-empty allLanes and a current lane in it, getAdjLanes      *)
(* returns only members of allLanes, 2 lanes when the current lane is the   *)
(* lowest or the highest and 3 lanes otherwise; every Node's lane is a      *)
(* member of allLanes.                                                      *)
C11_AdjLanesWithinAllLanes ==
    (allLanes # {}) =>
        /\ (currNode # 0) =>
              /\ Range(allowedLanes) \subseteq allLanes
              /\ Len(allowedLanes) =
                    (IF heap[currNode].carX \in {SetMin(allLanes), SetMax(allLanes)}
                     THEN 2 ELSE 3)
        /\ \A k \in NodeIds : heap[k].carX \in allLanes

(* an input the design calls a configuration error *)
ConfigError ==
    \/ allLanes = {}
    \/ allVelocities = << >>
    \/ DOMAIN allowedLaneVels # allLanes
    \/ goalStates = << >>

(* C12: with an empty lane domain, an empty velocity domain, a lane without *)
(* an entry in allowedLaneVels or an empty goalStates, the build is         *)
(* rejected before the search: no Node is expanded into children and no     *)
(* Automaton is built, whatever maxTime is.  (Taking the root off the       *)
(* queue is not held against the claim here.)                               *)
C12_ConfigErrorBeforeSearch ==
    ConfigError =>
        /\ heap = <<initNode>>
        /\ DFA = NoDFA
        /\ pc # "done"

(* a move from lane 0 to lane 1 at velocity 1 where only 2 is legal in     *)
(* lane 0 and only 1 in lane 1                                             *)
ScenarioDMove(n, k) ==
    /\ {0, 1} \subseteq DOMAIN allowedLaneVels
    /\ allowedLaneVels[0] = {2} /\ allowedLaneVels[1] = {1}
    /\ heap[n].carX = 0 /\ heap[k].carX = 1 /\ heap[k].prevVel = 1

(* C13: the speeding flag of every accepted Node is false iff its arrival *)
(* velocity is legal both in its parent's lane and in its own lane; the    *)
(* move of Scenario D is speeding.                                         *)
C13_SpeedingIffNotLegalInBothLanes ==
    \A n \in NodeIds : \A k \in Range(heap[n].adjList) :
        /\ heap[k].speeding = FALSE
              <=> (/\ heap[k].prevVel \in allowedLaneVels[heap[n].carX]
                   /\ heap[k].prevVel \in allowedLaneVels[heap[k].carX])
        /\ ScenarioDMove(n, k) => heap[k].speeding = TRUE

C13_Witness ==
    \E n \in NodeIds : \E k \in Range(heap[n].adjList) :
        ScenarioDMove(n, k) /\ heap[k].speeding

C16_PositionNeverDecreases ==
    \A n \in NodeIds : \A k \in Range(heap[n].adjList) :
        heap[k].carY >= heap[n].carY

(* C16: when no velocity in allVelocities is negative, the position of a   *)
(* child is at least the position of its parent.                           *)
C16_PositionNeverDecreasesIfNoNegativeVelocity ==
    (\A i \in 1..Len(allVelocities) : allVelocities[i] >= 0) =>
        \A n \in NodeIds : \A k \in Range(heap[n].adjList) :
            heap[k].carY >= heap[n].carY

(* a path of two transitions with growing positions *)
C16_Witness ==
    /\ \A i \in 1..Len(allVelocities) : allVelocities[i] >= 0
    /\ \E n \in NodeIds \ {1} : \E k \in Range(heap[n].adjList) :
          /\ heap[k].carY > heap[n].carY
          /\ heap[n].carY > heap[1].carY

(* node n has a child for every candidate that passes the Crash Test *)
NoSafeCandidateMissing(n) ==
    \A l \in Range(getAdjLanes(heap[n].carX, allLanes)) :
        \A v \in Range(allVelocities) :
            TransitionCrashes(heap[n], l, v)
               \/ \E k \in Range(heap[n].adjList) :
                     /\ heap[k].carX = l
                     /\ heap[k].prevVel = v
                     /\ heap[k].carY = heap[n].carY + v
                     /\ heap[k].carT = heap[n].carT + 1

(* C17: Nodes leave the queue in non-decreasing timeStep order (the queue  *)
(* is ordered by timeStep and holds nothing earlier than the Node dequeued *)
(* last); so when the Automaton is assembled every Node before the horizon *)
(* has left the queue and has a child for each of its non-crashing         *)
(* candidates.                                                             *)
C17_BreadthFirstAndComplete ==
    /\ \A i \in 1..Len(nodeQueue) : \A j \in i..Len(nodeQueue) :
          heap[nodeQueue[i]].carT <= heap[nodeQueue[j]].carT
    /\ (currNode # 0) =>
          \A i \in 1..Len(nodeQueue) :
              heap[currNode].carT <= heap[nodeQueue[i]].carT
    /\ (DFA # NoDFA) =>
          \A n \in NodeIds :
              (heap[n].carT < maxTime) =>
                  /\ n \notin Range(nodeQueue)
                  /\ n # currNode
                  /\ NoSafeCandidateMissing(n)

(* the Automaton of a two-level graph, assembled with Nodes still queued *)
C17_Witness ==
    /\ DFA # NoDFA
    /\ maxTime = MaxHorizon
    /\ nodeQueue # << >>
    /\ \E n \in NodeIds \ {1} : heap[n].adjList # << >>
    /\ pruned # {}

(* the places (parent, index) at which node k is listed as a child *)
Listings(k) ==
    UNION {{<<n, i>> : i \in {j \in 1..Len(heap[n].adjList) :
                                 heap[n].adjList[j] = k}} : n \in NodeIds}

(* the State of a Node *)
StateOf(n) ==
    <<heap[n].carX, heap[n].carY, heap[n].carT, heap[n].prevLane,
      heap[n].prevVel>>

(* C18: the graph is a tree rooted at the start node: every non-root Node *)
(* is listed exactly once in exactly one adjacency list, the root in none, *)
(* a child is one timeStep after its parent, and every Node is enqueued    *)
(* once and dequeued at most once (the queue holds, without repetition,    *)
(* exactly the Nodes created and not yet dequeued).                        *)
C18_GraphIsATree ==
    /\ Listings(1) = {}
    /\ \A k \in NodeIds \ {1} : Cardinality(Listings(k)) = 1
    /\ \A n \in NodeIds : \A k \in Range(heap[n].adjList) :
          heap[k].carT > heap[n].carT
    /\ \A i \in 1..Len(nodeQueue) : nodeQueue[i] = currNode + i
    /\ Len(nodeQueue) = Len(heap) - currNode

(* two distinct Nodes reached by different paths carry the same State *)
C18_Witness ==
    \E m \in NodeIds : \E n \in NodeIds :
        /\ m < n
        /\ StateOf(m) = StateOf(n)
        /\ \E a \in NodeIds : \E b \in NodeIds :
              /\ a # b
              /\ m \in Range(heap[a].adjList)
              /\ n \in Range(heap[b].adjList)

(* the step taken for a candidate that passes the Crash Test: one new Node, *)
(* listed last in the expanded Node's adjacency list and put on the queue   *)
AcceptsCandidate ==
    LET lane == allowedLanes[laneIdx]
        vel == allVelocities[velIdx]
        ref == Len(heap) + 1
    IN  /\ Len(heap') = ref
        /\ heap'[currNode].adjList = Append(heap[currNode].adjList, ref)
        /\ nodeQueue' = Append(nodeQueue, ref)
        /\ heap'[ref].carX = lane
        /\ heap'[ref].prevVel = vel
        /\ heap'[ref].speeding =
              (vel \notin (allowedLaneVels[heap[currNode].carX]
                              \cap allowedLaneVels[lane]))
        /\ heap'[ref].atGoal =
              (lane = goalStates[1][1]
                  /\ heap[currNode].carY + vel > goalStates[1][2])

(* the step taken for a dequeued Node before the horizon: its candidates *)
(* are enumerated, whatever its flags                                     *)
ExpandsDequeued ==
    /\ currNode' = Head(nodeQueue)
    /\ allowedLanes' = getAdjLanes(heap[Head(nodeQueue)].carX, allLanes)
    /\ pc' = (IF allVelocities = << >> THEN "pop" ELSE "expand")
    /\ DFA' = DFA

(* C19: the atGoal and speeding flags never affect exploration: a candidate *)
(* that passes the Crash Test is appended to its parent's adjacency list    *)
(* and enqueued whether or not it is speeding or at the goal, and a         *)
(* dequeued Node before the horizon is expanded whether or not it is        *)
(* flagged.                                                                 *)
C19_FlagsDoNotAffectExploration ==
    [][/\ ( /\ pc = "expand"
            /\ {heap[currNode].carX, allowedLanes[laneIdx]}
                  \subseteq DOMAIN allowedLaneVels
            /\ goalStates # << >>
            /\ ~TransitionCrashes(heap[currNode], allowedLanes[laneIdx],
                                  allVelocities[velIdx]) )
          => AcceptsCandidate
       /\ ( /\ pc = "pop"
            /\ nodeQueue # << >>
            /\ allLanes # {}
            /\ heap[Head(nodeQueue)].carT < maxTime )
          => ExpandsDequeued]_vars

(* a speeding Node and a Node at the goal, both with children of their own *)
C19_Witness ==
    /\ \E n \in NodeIds \ {1} :
          heap[n].speeding /\ ~heap[n].atGoal /\ heap[n].adjList # << >>
    /\ \E n \in NodeIds \ {1} :
          heap[n].atGoal /\ heap[n].adjList # << >>
    /\ \E n \in NodeIds : \E k \in Range(heap[n].adjList) :
          heap[k].speeding /\ heap[k].atGoal

(* every table query lies in the sweep of the transition it was made for *)
QueriesWithinSweep ==
    \A q \in queried :
        LET parent == heap[q[1]]
            lane == q[2]
            arrivalVelocity == q[3]
            x == q[4]
            p == q[5]
            t == q[6]
        IN  /\ t = parent.carT
            /\ 0 <= t
            /\ t <= maxTime - 1
            /\ x \in {parent.carX, lane}
            /\ parent.carY <= p
            /\ p < parent.carY + arrivalVelocity - MinLegalSpeed(x)

(* C20: every occupancy-table query of a build is at the parent's timeStep, *)
(* which lies in 0..maxTime-1, at the parent's lane or the candidate lane,   *)
(* and at a position p with position(parent) <= p < position(parent) +       *)
(* arrivalVelocity - minLegalSpeed(queried lane); the table, the lane and    *)
(* velocity configuration and the goal are never modified.                   *)
C20_QueriesStayInSweepAndInputsAreReadOnly ==
    /\ []QueriesWithinSweep
    /\ [][config' = config]_vars

(* a query in the lane being entered, at the last time step before a *)
(* horizon of at least two steps                                      *)
C20_Witness ==
    \E q \in queried :
        /\ q[6] = maxTime - 1
        /\ q[6] >= 1
        /\ q[4] = q[2]
        /\ q[4] # heap[q[1]].carX
        /\ <<q[4], q[5], q[6]>> \in POS

====
